---- MODULE Spec2Model ----
(***************************************************************************)
(* MPFramework: a controller-side MPFProcessHandler that spawns an         *)
(* MPFProcess worker, feeds it through a bounded input queue, drains a     *)
(* bounded output queue and terminates it; the worker's run loop with its  *)
(* MPFTaskChecker and MPFResultPublisher; the MPFSharedMemory segment.     *)
(*                                                                         *)
(* Text is a sequence of one-character strings, so that lower(), strip()   *)
(* and the substring test of _check_for_terminal_header are computed.      *)
(***************************************************************************)
EXTENDS Naturals, Sequences, FiniteSets

\* ------------------------------------------------------------------ bounds

\* Capacity of the handle's input queue (input_queue_max_size, default 1000).
InCap == 2
\* Capacity of the handle's output queue (output_queue_max_size, default 1000).
OutCap == 2
\* Number of envelopes the controller's put() calls may enqueue in one run.
MaxSent == 2
\* Number of results one worker's publish calls enqueue in one run.
MaxPub == 2
\* Number of MPFProcess objects the controller has at hand.
NumProcs == 2

\* Largest number of elements of a Shared Memory Segment.
MaxLength == 3

\* get_all gives up after this many consecutive Empty failures.
FailLimit == 10

Procs == 1..NumProcs

\* ------------------------------------------------------------------ text

UpperCase ==
  [A |-> "a", B |-> "b", C |-> "c", D |-> "d", E |-> "e", F |-> "f", G |-> "g",
   H |-> "h", I |-> "i", J |-> "j", K |-> "k", L |-> "l", M |-> "m", N |-> "n",
   O |-> "o", P |-> "p", Q |-> "q", R |-> "r", S |-> "s", T |-> "t", U |-> "u",
   V |-> "v", W |-> "w", X |-> "x", Y |-> "y", Z |-> "z"]

\* str.lower(), one character.
LowerChar(c) == IF c \in DOMAIN UpperCase THEN UpperCase[c] ELSE c

\* str.lower()
Lower(s) == [i \in 1..Len(s) |-> LowerChar(s[i])]

WhiteSpace == {" ", "\t", "\n"}

RECURSIVE LStrip(_)
LStrip(s) == IF s # <<>> /\ Head(s) \in WhiteSpace THEN LStrip(Tail(s)) ELSE s

RECURSIVE RStrip(_)
RStrip(s) ==
  IF s # <<>> /\ s[Len(s)] \in WhiteSpace THEN RStrip(SubSeq(s, 1, Len(s) - 1)) ELSE s

\* str.strip()
Strip(s) == RStrip(LStrip(s))

\* Python's `word in h` on strings: word is a contiguous part of h.
Contains(h, word) ==
  \E i \in 0..(Len(h) - Len(word)) : SubSeq(h, i + 1, i + Len(word)) = word

\* MPFTaskChecker.EXIT_KEYWORDS
EXIT_KEYWORDS ==
  << <<"t","e","r","m","i","n","a","t","e">>,
     <<"t","e","r","m","i","n","a","l">>,
     <<"e","x","i","t">>,
     <<"s","t","o","p">>,
     <<"j","o","i","n">>,
     <<"c","l","o","s","e">>,
     <<"f","i","n","i","s","h">> >>

\* The canonical sentinel the run loop compares with.
STOP_PROCESS == <<"S","T","O","P"," ","P","R","O","C","E","S","S">>

\* self.header before any envelope was received (Python's None).
NoHeader == <<"None">>

\* The payload None.
NoData == "None"

\* MPFDataPacket(header, data): the envelope put on a queue; calling it
\* yields the (header, data) pair back.
MPFDataPacket(header, data) == [header |-> header, data |-> data]

\* An envelope on the input queue, stamped with its place in the order of
\* enqueueing (the stamp is not read by the program).
Stamped(packet, id) == [header |-> packet.header, data |-> packet.data, id |-> id]

\* Header the Result Publisher gives a result by default.
RESULT_HEADER == <<"MPFProcess_default_header">>

\* ---------------------------------------------------------------- inputs

Greet == <<"g","r","e","e","t">>
PleaseCloseNow == <<" ","P","l","s"," ","C","l","O","S","E"," ","n","o","w">>
NearMiss == <<"s","t","o"," ","p","E","x","i"," ","t">>

\* The (header, data) arguments the controller passes to put().
PutArgs ==
  {MPFDataPacket(Greet, "hello"), MPFDataPacket(Greet, NoData),
   MPFDataPacket(PleaseCloseNow, NoData), MPFDataPacket(NearMiss, "hello")}

\* header argument of wait_for_initialization (NoHeader: not given).
WaitHeaders == {NoHeader, Greet}

\* ----------------------------------------------------------------- state

VARIABLES
  process,      \* handle._process: 0 is None, else the worker last set up
  released,     \* close() has deleted _input_queue, _output_queue, _process
  terminating,  \* handle._terminating
  inq,          \* input queue: envelopes, oldest first
  outq,         \* output queue: envelopes a get() can retrieve, oldest first
  outbuf,       \* per worker: results put but still in its feeder buffer
  cpc,          \* where the controller is inside a handle call
  caller,       \* the public call the controller is inside
  cleaningUp,   \* get_all's cleaning_up argument
  results,      \* get_all's results list
  failCount,    \* get_all's failCount
  ret,          \* outcome of the last public call that returned
  nSent,        \* number of envelopes ever enqueued on the input queue
  wpc,          \* per worker: position in MPFProcess.run
  tcHeader,     \* per worker: task_checker.header
  tcData,       \* per worker: task_checker.latest_data
  wfiHeader,    \* per worker: header argument of wait_for_initialization
  lastObs,      \* per worker: (header, latest_data) check_for_update yielded last
  lastRaw,      \* per worker: header, as sent, of the envelope consumed last
  lastId,       \* per worker: stamp of the envelope consumed last
  stopSeen,     \* per worker: a consumed envelope was normalised to STOP PROCESS
  cause,        \* per worker: why the run loop was left
  tcReleased,   \* per worker: run()'s finally has released the task checker
  cleanupCalls, \* per worker: number of calls of the cleanup hook
  nPub,         \* per worker: number of results its publish calls enqueued
  gaSnap,       \* the retrievable results when the get_all in progress began
  gaQuiet,      \* no worker has written to the output queue during that get_all
  watch,        \* the calls whose outcome is recorded (never changes)
  pubRet        \* outcome of the last results_publisher.publish call

VARIABLES
  mem,          \* the segment's elements (block._mem), first element first
  memDtype,     \* the segment's element type
  shmBound,     \* the MPFSharedMemory object still has _memory and _manager
  memRet,       \* outcome of the last set, get or cleanup call on the segment
  lastSet       \* arguments of the last set call that returned normally

hvars == <<process, released, terminating, cpc, caller, cleaningUp, results, failCount, ret>>
qvars == <<inq, outq, outbuf, nSent>>
tcvars == <<tcHeader, tcData, wfiHeader, lastObs, lastRaw, lastId, stopSeen>>
wvars == <<wpc, cause, tcReleased, cleanupCalls, nPub>>
mvars == <<mem, memDtype, shmBound, memRet, lastSet>>
\* What no call on the handle and no step of a worker changes.
fixed == <<watch, mvars>>
gvars == <<gaSnap, gaQuiet, fixed, pubRet>>
vars == <<hvars, qvars, tcvars, wvars, gvars>>

NoRet == [op |-> "none", kind |-> "none", val |-> <<>>, exc |-> "", flag |-> FALSE]
NoPub == [proc |-> 0, kind |-> "none", data |-> <<>>]

\* The handle's public calls.
Calls == {"setup_process", "put", "get", "get_all", "is_alive", "close"}

\* The state after MPFProcessHandler() was constructed; the outcomes of the
\* calls in w are recorded in ret. No action reads ret: it is what the
\* controller sees, and recording less of it changes no behaviour.
Constructed(w) ==
  /\ watch = w
  /\ process = 0
  /\ released = FALSE
  /\ terminating = FALSE
  /\ inq = <<>>
  /\ outq = <<>>
  /\ outbuf = [p \in Procs |-> <<>>]
  /\ cpc = "idle"
  /\ caller = "none"
  /\ cleaningUp = FALSE
  /\ results = <<>>
  /\ failCount = 0
  /\ ret = NoRet
  /\ nSent = 0
  /\ wpc = [p \in Procs |-> "unstarted"]
  /\ tcHeader = [p \in Procs |-> NoHeader]
  /\ tcData = [p \in Procs |-> NoData]
  /\ wfiHeader = [p \in Procs |-> NoHeader]
  /\ lastObs = [p \in Procs |-> MPFDataPacket(NoHeader, NoData)]
  /\ lastRaw = [p \in Procs |-> NoHeader]
  /\ lastId = [p \in Procs |-> 0]
  /\ stopSeen = [p \in Procs |-> FALSE]
  /\ cause = [p \in Procs |-> "none"]
  /\ tcReleased = [p \in Procs |-> FALSE]
  /\ cleanupCalls = [p \in Procs |-> 0]
  /\ nPub = [p \in Procs |-> 0]
  /\ gaSnap = <<>>
  /\ gaQuiet = FALSE
  /\ pubRet = NoPub

NoMemRet == [op |-> "none", kind |-> "none", val |-> <<>>, exc |-> "", start |-> 0, size |-> 0]
NoSet == [ok |-> FALSE, start |-> 0, data |-> <<>>]

\* np.frombuffer(mp.RawArray(dtype, n)): n elements, all zero.
Zeros(n) == [i \in 1..n |-> 0]

\* MPFSharedMemory(size, dtype) was constructed: _allocate has built the block.
Allocated(size, dtype) ==
  /\ mem = Zeros(size)
  /\ memDtype = dtype
  /\ shmBound = TRUE
  /\ memRet = NoMemRet
  /\ lastSet = NoSet

\* No Shared Memory Segment is in use (setup_process's shared_memory=None).
NoSegment ==
  /\ mem = <<>>
  /\ memDtype = "float32"
  /\ shmBound = FALSE
  /\ memRet = NoMemRet
  /\ lastSet = NoSet

Init == Constructed(Calls) /\ NoSegment

\* ---------------------------------------------------------- Task Checker

\* A terminal-header check that forgets header.lower().
CheckForTerminalHeaderCaseSensitive(header) ==
  IF \E k \in 1..Len(EXIT_KEYWORDS) : Contains(Strip(header), EXIT_KEYWORDS[k])
  THEN STOP_PROCESS
  ELSE header

\* MPFTaskChecker._check_for_terminal_header: the value self.header has after it.
CheckForTerminalHeader(header) ==
  IF \E k \in 1..Len(EXIT_KEYWORDS) : Contains(Strip(Lower(header)), EXIT_KEYWORDS[k])
  THEN STOP_PROCESS
  ELSE header

\* MPFTaskChecker.check_for_update on input queue q with the checker's
\* header and latest_data: the queue, header and latest_data afterwards and
\* the value returned (newData).
CheckForUpdate(q, header, data) ==
  IF q # <<>>
  THEN [q |-> Tail(q),
        header |-> CheckForTerminalHeader(Head(q).header),
        data |-> Head(q).data,
        raw |-> Head(q).header,
        id |-> Head(q).id,
        newData |-> TRUE]
  ELSE [q |-> q, header |-> header, data |-> data, raw |-> NoHeader, id |-> 0,
        newData |-> FALSE]

\* The worker's poll of its task checker: the state change of check_for_update.
Poll(p, r) ==
  /\ inq' = r.q
  /\ tcHeader' = [tcHeader EXCEPT ![p] = r.header]
  /\ lastObs' = IF r.newData
                THEN [lastObs EXCEPT ![p] = MPFDataPacket(r.header, r.data)]
                ELSE lastObs
  /\ lastRaw' = IF r.newData THEN [lastRaw EXCEPT ![p] = r.raw] ELSE lastRaw
  /\ lastId' = IF r.newData THEN [lastId EXCEPT ![p] = r.id] ELSE lastId
  /\ stopSeen' = IF r.newData /\ r.header = STOP_PROCESS
                 THEN [stopSeen EXCEPT ![p] = TRUE]
                 ELSE stopSeen

\* ------------------------------------------------------- worker: MPFProcess

\* Process.is_alive(): started and neither returned from run() nor killed.
Alive(p) == wpc[p] \notin {"unstarted", "exited", "killed"}

\* Queue.qsize() of the output queue: every result put and not yet taken,
\* those still in a feeder buffer included.
RECURSIVE Buffered(_)
Buffered(n) == IF n = 0 THEN 0 ELSE Len(outbuf[n]) + Buffered(n - 1)
OutQSize == Len(outq) + Buffered(NumProcs)

\* A run() without its finally block: a raising hook ends the process at once.
HookWithoutFinally(p, next) ==
  \/ /\ wpc' = [wpc EXCEPT ![p] = next]
     /\ cause' = cause
  \/ /\ wpc' = [wpc EXCEPT ![p] = "exiting"]
     /\ cause' = [cause EXCEPT ![p] = "fault"]
  \/ /\ wpc' = [wpc EXCEPT ![p] = "hung"]
     /\ cause' = cause

\* A hook of the user's subclass returns, raises or never returns; run()
\* catches what it raises and goes to its finally block.
Hook(p, next) ==
  \/ /\ wpc' = [wpc EXCEPT ![p] = next]
     /\ cause' = cause
  \/ /\ wpc' = [wpc EXCEPT ![p] = "fin"]
     /\ cause' = [cause EXCEPT ![p] = "fault"]
  \/ /\ wpc' = [wpc EXCEPT ![p] = "hung"]
     /\ cause' = cause

\* run(): self.init(), when the hook does not wait for initial data.
WInit(p) ==
  /\ wpc[p] = "init"
  /\ Hook(p, "check")
  /\ UNCHANGED <<hvars, qvars, tcvars, tcReleased, cleanupCalls, nPub, gvars>>

\* run(): self.init() calling task_checker.wait_for_initialization(header),
\* up to the loop.
WInitWait(p) ==
  /\ wpc[p] = "init"
  /\ \E h \in WaitHeaders :
       IF h # NoHeader /\ tcHeader[p] # NoHeader /\ tcHeader[p] = h
       THEN /\ wpc' = [wpc EXCEPT ![p] = "check"]
            /\ UNCHANGED <<tcData, wfiHeader>>
       ELSE /\ wpc' = [wpc EXCEPT ![p] = "wfi"]
            /\ tcData' = [tcData EXCEPT ![p] = NoData]
            /\ wfiHeader' = [wfiHeader EXCEPT ![p] = h]
  /\ UNCHANGED <<hvars, qvars, tcHeader, lastObs, lastRaw, lastId, stopSeen,
                 cause, tcReleased, cleanupCalls, nPub, gvars>>

\* One pass of wait_for_initialization's loop; init returns when it ends.
WfiPoll(p) ==
  /\ wpc[p] = "wfi"
  /\ LET r == CheckForUpdate(inq, tcHeader[p], tcData[p])
         d == IF r.header # wfiHeader[p] /\ wfiHeader[p] # NoHeader THEN NoData ELSE r.data
     IN /\ Poll(p, r)
        /\ tcData' = [tcData EXCEPT ![p] = d]
        /\ wpc' = [wpc EXCEPT ![p] = IF d = NoData THEN "wfi" ELSE "check"]
  /\ UNCHANGED <<hvars, outq, outbuf, nSent, wfiHeader, cause, tcReleased, cleanupCalls, nPub, gvars>>

\* A run loop that does not test for the stop signal.
AfterCheckWithoutStopTest(r) == IF r.newData THEN "update" ELSE "step"

\* Where the run loop goes after check_for_update returned r.
AfterCheck(r) ==
  IF r.newData
  THEN IF r.header = STOP_PROCESS THEN "fin" ELSE "update"
  ELSE "step"

\* run(): the top of the loop: check_for_update and the test for the stop
\* signal, for a worker that is the only consumer of its input queue: nothing
\* can take the envelope between the test of empty() and get_nowait().
WCheck(p) ==
  /\ wpc[p] = "check"
  /\ LET r == CheckForUpdate(inq, tcHeader[p], tcData[p])
     IN /\ Poll(p, r)
        /\ tcData' = [tcData EXCEPT ![p] = r.data]
        /\ wpc' = [wpc EXCEPT ![p] = AfterCheck(r)]
        /\ cause' = IF AfterCheck(r) = "fin" THEN [cause EXCEPT ![p] = "stop"] ELSE cause
  /\ UNCHANGED <<hvars, outq, outbuf, nSent, wfiHeader, tcReleased, cleanupCalls, nPub, gvars>>

\* check_for_update, first half, for a worker that shares its input queue
\* with other consumers: `if not self._input_queue.empty()`.
WCheckTest(p) ==
  /\ wpc[p] = "check"
  /\ wpc' = [wpc EXCEPT ![p] = IF inq = <<>> THEN "step" ELSE "take"]
  /\ UNCHANGED <<hvars, qvars, tcvars, cause, tcReleased, cleanupCalls, nPub, gvars>>

\* check_for_update, second half: get_nowait() and the rest, then run()'s
\* test for the stop signal; on an empty queue get_nowait raises Empty,
\* which run() catches as it catches a fault of a hook.
WCheckTake(p) ==
  /\ wpc[p] = "take"
  /\ IF inq # <<>>
     THEN LET r == CheckForUpdate(inq, tcHeader[p], tcData[p])
          IN /\ Poll(p, r)
             /\ tcData' = [tcData EXCEPT ![p] = r.data]
             /\ wpc' = [wpc EXCEPT ![p] = AfterCheck(r)]
             /\ cause' = IF AfterCheck(r) = "fin" THEN [cause EXCEPT ![p] = "stop"] ELSE cause
     ELSE /\ wpc' = [wpc EXCEPT ![p] = "fin"]
          /\ cause' = [cause EXCEPT ![p] = "fault"]
          /\ UNCHANGED <<inq, tcHeader, tcData, lastObs, lastRaw, lastId, stopSeen>>
  /\ UNCHANGED <<hvars, outq, outbuf, nSent, wfiHeader, tcReleased, cleanupCalls, nPub, gvars>>

\* run(): self.update(header, latest_data)
WUpdate(p) ==
  /\ wpc[p] = "update"
  /\ Hook(p, "step")
  /\ UNCHANGED <<hvars, qvars, tcvars, tcReleased, cleanupCalls, nPub, gvars>>

\* run(): self.step()
WStep(p) ==
  /\ wpc[p] = "step"
  /\ Hook(p, "publish")
  /\ UNCHANGED <<hvars, qvars, tcvars, tcReleased, cleanupCalls, nPub, gvars>>

\* Queue.put(packet, block=True, timeout=1.0) on the bounded output queue by
\* worker p: the worker's feeder buffer afterwards, and Full raised when no
\* room is made within the timeout.
OutQueuePut(p, packet) ==
  IF OutQSize < OutCap
  THEN [buf |-> Append(outbuf[p], packet), exc |-> "", put |-> TRUE]
  ELSE [buf |-> outbuf[p], exc |-> "Full", put |-> FALSE]

\* A publish that does not test full() first.
PublishUnchecked(p, data) == OutQueuePut(p, MPFDataPacket(RESULT_HEADER, data))

\* MPFResultPublisher.publish(data): put unless the queue is full.
Publish(p, data) ==
  IF OutQSize < OutCap
  THEN OutQueuePut(p, MPFDataPacket(RESULT_HEADER, data))
  ELSE [buf |-> outbuf[p], exc |-> "", put |-> FALSE]

PubReturned(p, kind, data) ==
  IF "publish" \in watch THEN [proc |-> p, kind |-> kind, data |-> data] ELSE NoPub

\* run(): self.publish(), a hook that publishes nothing.
WPublish(p) ==
  /\ wpc[p] = "publish"
  /\ Hook(p, "check")
  /\ UNCHANGED <<hvars, qvars, tcvars, tcReleased, cleanupCalls, nPub, gvars>>

\* run(): self.publish(), a hook that publishes one result and returns.
WPublishResult(p) ==
  /\ wpc[p] = "publish"
  /\ nPub[p] < MaxPub \/ OutQSize >= OutCap
  /\ LET r == Publish(p, <<p, nPub[p] + 1>>)
     IN /\ outbuf' = [outbuf EXCEPT ![p] = r.buf]
        /\ nPub' = IF r.put THEN [nPub EXCEPT ![p] = @ + 1] ELSE nPub
        /\ gaQuiet' = IF r.put THEN FALSE ELSE gaQuiet
        /\ wpc' = [wpc EXCEPT ![p] = IF r.exc # "" THEN "fin" ELSE "check"]
        /\ cause' = IF r.exc # "" THEN [cause EXCEPT ![p] = "fault"] ELSE cause
        /\ pubRet' = PubReturned(p, IF r.exc # "" THEN "raise"
                                    ELSE IF r.put THEN "put" ELSE "dropped",
                                 <<p, nPub[p] + 1>>)
  /\ UNCHANGED <<hvars, inq, outq, nSent, tcvars, tcReleased, cleanupCalls, gaSnap, fixed>>

\* The worker's feeder thread moves one buffered result into the queue's pipe.
Flush(p) ==
  /\ Alive(p)
  /\ outbuf[p] # <<>>
  /\ outq' = Append(outq, Head(outbuf[p]))
  /\ outbuf' = [outbuf EXCEPT ![p] = Tail(@)]
  /\ UNCHANGED <<hvars, inq, nSent, tcvars, wvars, gvars>>

\* run(), finally: task_checker.cleanup(), del task_checker, del results_publisher.
WRelease(p) ==
  /\ wpc[p] = "fin"
  /\ tcReleased' = [tcReleased EXCEPT ![p] = TRUE]
  /\ wpc' = [wpc EXCEPT ![p] = "cleanup"]
  /\ UNCHANGED <<hvars, qvars, tcvars, cause, cleanupCalls, nPub, gvars>>

\* run(), finally: self.cleanup(); the hook returns or never does.
WCleanup(p) ==
  /\ wpc[p] = "cleanup"
  /\ cleanupCalls' = [cleanupCalls EXCEPT ![p] = @ + 1]
  /\ \E next \in {"exiting", "hung"} : wpc' = [wpc EXCEPT ![p] = next]
  /\ UNCHANGED <<hvars, qvars, tcvars, cause, tcReleased, nPub, gvars>>

\* run() returns; the process ends once its feeder thread has flushed.
WExit(p) ==
  /\ wpc[p] = "exiting"
  /\ outbuf[p] = <<>>
  /\ wpc' = [wpc EXCEPT ![p] = "exited"]
  /\ UNCHANGED <<hvars, qvars, tcvars, cause, tcReleased, cleanupCalls, nPub, gvars>>

Worker(p) ==
  \/ WInit(p)
  \/ WInitWait(p)
  \/ WfiPoll(p)
  \/ WCheck(p)
  \/ WUpdate(p)
  \/ WStep(p)
  \/ WPublish(p)
  \/ WPublishResult(p)
  \/ Flush(p)
  \/ WRelease(p)
  \/ WCleanup(p)
  \/ WExit(p)

\* ----------------------------------------------- handle: MPFProcessHandler

Returned(op, kind, val, exc, flag) ==
  IF op \in watch
  THEN [op |-> op, kind |-> kind, val |-> val, exc |-> exc, flag |-> flag]
  ELSE NoRet

\* What the public call that ran close() through _check_status returns once
\* close() is done: put and get_all return None, get evaluates the undefined
\* name cleaning_up, close itself returns None.
AfterClose(op) ==
  IF op = "get"
  THEN Returned("get", "raise", <<>>, "NameError", FALSE)
  ELSE Returned(op, "none", <<>>, "", FALSE)

\* MPFProcessHandler.is_alive() while the handle still has its attributes.
HandleAlive == process # 0 /\ Alive(process)

\* setup_process(process): bind the queues to the next MPFProcess object and
\* start it. set_shared_memory only stores the segment handle and the CPU
\* affinity is an effect outside the state kept here.
SetupProcess ==
  /\ cpc = "idle"
  /\ ~released
  /\ process + 1 \in Procs
  /\ process' = process + 1
  /\ wpc' = [wpc EXCEPT ![process + 1] = "init"]
  /\ ret' = Returned("setup_process", "none", <<>>, "", FALSE)
  /\ UNCHANGED <<released, terminating, cpc, caller, cleaningUp, results, failCount,
                 qvars, tcvars, cause, tcReleased, cleanupCalls, nPub, gvars>>

\* _check_status() finding the worker dead: close() begins (terminating is set).
BeginClose(op) ==
  /\ terminating' = TRUE
  /\ cpc' = "close_put"
  /\ caller' = op
  /\ UNCHANGED <<process, released, cleaningUp, results, failCount, ret>>

\* Queue.put(task, block=False) on the bounded input queue: the queue
\* afterwards, and Full raised when there is no room.
QueuePutNoWait(q, task) ==
  IF Len(q) < InCap THEN [q |-> Append(q, task), exc |-> ""] ELSE [q |-> q, exc |-> "Full"]

\* Queue.full() of the input queue.
Full(q) == Len(q) >= InCap

\* A put() that enqueues at the front of the queue.
PutBodyFront(q, task) ==
  IF ~Full(q) THEN [q |-> <<task>> \o q, exc |-> ""] ELSE [q |-> q, exc |-> ""]

\* A put() that does not test full() first.
PutBodyUnchecked(q, task) == QueuePutNoWait(q, task)

\* put() past the liveness gate: enqueue unless the queue is full.
PutBody(q, task) ==
  IF ~Full(q) THEN QueuePutNoWait(q, task) ELSE [q |-> q, exc |-> ""]

\* put(header, data)
Put(header, data) ==
  /\ cpc = "idle"
  /\ process # 0
  /\ IF terminating
     THEN /\ ret' = Returned("put", "none", <<>>, "", FALSE)
          /\ UNCHANGED <<process, released, terminating, cpc, caller, cleaningUp,
                         results, failCount, qvars>>
     ELSE IF ~HandleAlive
     THEN /\ BeginClose("put")
          /\ UNCHANGED qvars
     ELSE /\ nSent < MaxSent \/ Full(inq)
          /\ LET r == PutBody(inq, Stamped(MPFDataPacket(header, data), nSent + 1))
             IN /\ inq' = r.q
                /\ nSent' = IF r.q # inq THEN nSent + 1 ELSE nSent
                /\ ret' = IF r.exc # ""
                          THEN Returned("put", "raise", <<>>, r.exc, FALSE)
                          ELSE Returned("put", "none", <<>>, "", r.q # inq)
          /\ UNCHANGED <<process, released, terminating, cpc, caller, cleaningUp,
                         results, failCount, outq, outbuf>>
  /\ UNCHANGED <<tcvars, wvars, gvars>>

\* get()
Get ==
  /\ cpc = "idle"
  /\ process # 0
  /\ IF terminating
     THEN /\ ret' = AfterClose("get")
          /\ UNCHANGED <<process, released, terminating, cpc, caller, cleaningUp,
                         results, failCount, qvars>>
     ELSE IF ~HandleAlive
     THEN /\ BeginClose("get")
          /\ UNCHANGED qvars
     ELSE /\ IF outq = <<>>
             THEN /\ ret' = Returned("get", "none", <<>>, "", FALSE)
                  /\ outq' = outq
             ELSE /\ ret' = Returned("get", "pair", <<Head(outq)>>, "", FALSE)
                  /\ outq' = Tail(outq)
          /\ UNCHANGED <<process, released, terminating, cpc, caller, cleaningUp,
                         results, failCount, inq, outbuf, nSent>>
  /\ UNCHANGED <<tcvars, wvars, gvars>>

\* is_alive()
IsAlive ==
  /\ cpc = "idle"
  /\ ret' = IF released
            THEN Returned("is_alive", "raise", <<>>, "AttributeError", FALSE)
            ELSE Returned("is_alive", "bool", <<>>, "", HandleAlive)
  /\ UNCHANGED <<process, released, terminating, cpc, caller, cleaningUp, results,
                 failCount, qvars, tcvars, wvars, gvars>>

\* close() (and its aliases join() and stop()) called by the controller.
Close ==
  /\ cpc = "idle"
  /\ process # 0
  /\ terminating' = TRUE
  /\ IF released
     THEN /\ ret' = Returned("close", "raise", <<>>, "AttributeError", FALSE)
          /\ UNCHANGED <<cpc, caller>>
     ELSE /\ cpc' = "close_put"
          /\ caller' = "close"
          /\ ret' = ret
  /\ UNCHANGED <<process, released, cleaningUp, results, failCount, qvars, tcvars, wvars, gvars>>

\* The name of the handle's process, the payload of the stop envelope.
ProcessName == <<"MPFProcess", process>>

\* A _terminate_process that goes on to the join without having enqueued
\* the stop envelope.
ClosePutIfRoom ==
  /\ cpc = "close_put"
  /\ cpc' = "close_join"
  /\ UNCHANGED <<process, released, terminating, caller, cleaningUp, results,
                 failCount, ret, qvars, tcvars, wvars, gvars>>

\* _terminate_process: the blocking put of the stop envelope.
ClosePut ==
  /\ cpc = "close_put"
  /\ ~Full(inq)
  /\ inq' = Append(inq, Stamped(MPFDataPacket(EXIT_KEYWORDS[1], ProcessName), nSent + 1))
  /\ nSent' = nSent + 1
  /\ cpc' = "close_join"
  /\ UNCHANGED <<process, released, terminating, caller, cleaningUp, results,
                 failCount, ret, outq, outbuf, tcvars, wvars, gvars>>

\* _terminate_process: join(timeout=5) returns, the worker dead or the time
\* up; time is not measured, so the time may be up at any moment.
CloseJoin ==
  /\ cpc = "close_join"
  /\ cpc' = "close_while"
  /\ UNCHANGED <<process, released, terminating, caller, cleaningUp, results,
                 failCount, ret, qvars, tcvars, wvars, gvars>>

\* _terminate_process: while self.is_alive(): terminate(), then join again.
\* The killed process runs no finally block, and what its feeder thread had
\* not yet delivered stays counted by qsize() and is never delivered.
CloseTerminate ==
  /\ cpc = "close_while"
  /\ HandleAlive
  /\ wpc' = [wpc EXCEPT ![process] = "killed"]
  /\ cpc' = "close_join"
  /\ UNCHANGED <<process, released, terminating, caller, cleaningUp, results,
                 failCount, ret, qvars, tcvars, cause, tcReleased, cleanupCalls, nPub, gvars>>

\* close(): del _input_queue, _output_queue, _process, and the return to the
\* public call that ran close().
Release ==
  /\ released' = TRUE
  /\ cleaningUp' = FALSE
  /\ results' = <<>>
  /\ failCount' = 0
  /\ cpc' = "idle"
  /\ caller' = "none"
  /\ ret' = AfterClose(caller)
  /\ gaSnap' = <<>>
  /\ gaQuiet' = FALSE
  /\ UNCHANGED <<fixed, pubRet>>

\* close(): the worker is dead; get_all(cleaning_up=True) up to its loop.
CloseDrain ==
  /\ cpc = "close_while"
  /\ ~HandleAlive
  /\ IF outq = <<>>
     THEN Release
     ELSE /\ cpc' = "ga_loop"
          /\ cleaningUp' = TRUE
          /\ results' = <<>>
          /\ failCount' = 0
          /\ gaSnap' = outq
          /\ gaQuiet' = (Buffered(NumProcs) = 0)
          /\ UNCHANGED <<fixed, pubRet>>
          /\ UNCHANGED <<released, caller, ret>>
  /\ UNCHANGED <<process, terminating, qvars, tcvars, wvars>>

\* get_all()
GetAll ==
  /\ cpc = "idle"
  /\ process # 0
  /\ IF terminating
     THEN /\ ret' = AfterClose("get_all")
          /\ UNCHANGED <<process, released, terminating, cpc, caller, cleaningUp,
                         results, failCount, gvars>>
     ELSE IF ~HandleAlive
     THEN BeginClose("get_all") /\ UNCHANGED gvars
     ELSE IF outq = <<>>
     THEN /\ ret' = Returned("get_all", "none", <<>>, "", FALSE)
          /\ UNCHANGED <<process, released, terminating, cpc, caller, cleaningUp,
                         results, failCount, gvars>>
     ELSE /\ cpc' = "ga_loop"
          /\ caller' = "get_all"
          /\ cleaningUp' = FALSE
          /\ results' = <<>>
          /\ failCount' = 0
          /\ gaSnap' = outq
          /\ gaQuiet' = (Buffered(NumProcs) = 0)
          /\ UNCHANGED <<fixed, pubRet>>
          /\ UNCHANGED <<process, released, terminating, ret>>
  /\ UNCHANGED <<qvars, tcvars, wvars>>

\* get_all() returns its results list; inside close(), close() goes on.
GetAllReturn(list) ==
  IF cleaningUp
  THEN Release
  ELSE /\ ret' = Returned("get_all", "list", list, "", FALSE)
       /\ cpc' = "idle"
       /\ caller' = "none"
       /\ results' = <<>>
       /\ failCount' = 0
       /\ gaSnap' = <<>>
       /\ gaQuiet' = FALSE
       /\ UNCHANGED <<released, cleaningUp, fixed, pubRet>>

\* A get_all loop that counts the Empty failures and never gives up.
GetAllLoopNoLimit ==
  /\ cpc = "ga_loop"
  /\ IF OutQSize > 0
     THEN IF outq # <<>>
          THEN /\ results' = Append(results, Head(outq))
               /\ outq' = Tail(outq)
               /\ failCount' = 0
               /\ UNCHANGED <<released, cpc, caller, cleaningUp, ret, gvars>>
          ELSE /\ failCount' = failCount + 1
               /\ UNCHANGED <<released, cpc, caller, cleaningUp, ret, results, outq, gvars>>
     ELSE /\ GetAllReturn(results)
          /\ outq' = outq
  /\ UNCHANGED <<process, terminating, inq, outbuf, nSent, tcvars, wvars>>

\* One pass of get_all's loop `while self._output_queue.qsize() > 0`.
GetAllLoop ==
  /\ cpc = "ga_loop"
  /\ IF OutQSize > 0
     THEN IF outq # <<>>
          THEN /\ results' = Append(results, Head(outq))
               /\ outq' = Tail(outq)
               /\ failCount' = 0
               /\ UNCHANGED <<released, cpc, caller, cleaningUp, ret, gvars>>
          ELSE IF failCount + 1 >= FailLimit
          THEN /\ GetAllReturn(results)
               /\ outq' = outq
          ELSE /\ failCount' = failCount + 1
               /\ UNCHANGED <<released, cpc, caller, cleaningUp, ret, results, outq, gvars>>
     ELSE /\ GetAllReturn(results)
          /\ outq' = outq
  /\ UNCHANGED <<process, terminating, inq, outbuf, nSent, tcvars, wvars>>

Handle ==
  \/ \E a \in PutArgs : Put(a.header, a.data)
  \/ Get
  \/ GetAll
  \/ IsAlive
  \/ Close
  \/ ClosePut
  \/ CloseJoin
  \/ CloseTerminate
  \/ CloseDrain
  \/ GetAllLoop

\* ------------------------------------------ segment: MPFSharedMemory(Block)

\* The element values the controller writes.
MemValues == {1, 2}

\* The data arguments of set(): sequences of at most MaxLength values.
DataSeqs == UNION {[1..n -> MemValues] : n \in 0..MaxLength}

\* The element types a segment is allocated with.
Dtypes == {"float32", "float64"}

\* Bytes per element of the ctypes type.
ItemSize(dtype) == IF dtype = "float32" THEN 4 ELSE 8

Min(a, b) == IF a <= b THEN a ELSE b

\* A float64 whose value is the number v.
Float64(v) == <<v>>

\* The float64 whose eight bytes are those of the float32 values lo and hi
\* (little endian): 0.0 from two zeros, 2.0 from (0.0, 2.0), and otherwise a
\* number that is none of the element values.
Reinterpret(lo, hi) ==
  IF lo = 0 /\ hi = 0 THEN Float64(0)
  ELSE IF lo = 0 /\ hi = 2 THEN Float64(2)
  ELSE <<lo, hi>>

\* np.copyto(dst, src): src is broadcast to the shape of dst, so it must have
\* dst's length or length 1; the value dst has afterwards.
CopyTo(dst, src) ==
  IF Len(src) = Len(dst) THEN [exc |-> "", val |-> src]
  ELSE IF Len(src) = 1 THEN [exc |-> "", val |-> [i \in 1..Len(dst) |-> src[1]]]
  ELSE [exc |-> "ValueError", val |-> dst]

\* MPFSharedMemoryBlock.set(start, data): np.copyto(self._mem[start:], data).
BlockSet(m, start, data) ==
  LET r == CopyTo(SubSeq(m, start + 1, Len(m)), data)
  IN [exc |-> r.exc, mem |-> SubSeq(m, 1, Min(start, Len(m))) \o r.val]

\* A set that writes data at start and nothing else.
BlockSetSlice(m, start, data) ==
  [exc |-> "",
   mem |-> [i \in 1..Len(m) |->
             IF i > start /\ i <= start + Len(data) THEN data[i - start] ELSE m[i]]]

\* np.frombuffer(part) with its default dtype float: the bytes of part read
\* as float64 values.
FromBuffer(part, dtype) ==
  IF (Len(part) * ItemSize(dtype)) % 8 # 0
  THEN [exc |-> "ValueError", val |-> <<>>]
  ELSE IF dtype = "float64"
  THEN [exc |-> "", val |-> [i \in 1..Len(part) |-> Float64(part[i])]]
  ELSE [exc |-> "",
        val |-> [i \in 1..(Len(part) \div 2) |-> Reinterpret(part[2 * i - 1], part[2 * i])]]

\* MPFSharedMemoryBlock.get(index, size): np.frombuffer(self._mem[index:index + size]).
BlockGet(m, dtype, index, size) ==
  FromBuffer(SubSeq(m, index + 1, Min(index + size, Len(m))), dtype)

MemReturned(op, kind, val, exc, start, size) ==
  [op |-> op, kind |-> kind, val |-> val, exc |-> exc, start |-> start, size |-> size]

\* MPFSharedMemory.set(index, data), the caller keeping len(data) + index <= length.
MemSet(start, data) ==
  /\ start + Len(data) <= Len(mem)
  /\ IF ~shmBound
     THEN /\ memRet' = MemReturned("set", "raise", <<>>, "AttributeError", start, Len(data))
          /\ UNCHANGED <<mem, lastSet>>
     ELSE LET r == BlockSet(mem, start, data)
          IN /\ mem' = r.mem
             /\ memRet' = IF r.exc # ""
                           THEN MemReturned("set", "raise", <<>>, r.exc, start, Len(data))
                           ELSE MemReturned("set", "none", <<>>, "", start, Len(data))
             /\ lastSet' = IF r.exc # "" THEN NoSet
                            ELSE [ok |-> TRUE, start |-> start, data |-> data]
  /\ UNCHANGED <<memDtype, shmBound>>
  /\ UNCHANGED <<hvars, qvars, tcvars, wvars, gaSnap, gaQuiet, watch, pubRet>>

\* MPFSharedMemory.get(index, size), the caller keeping index + size <= length.
MemGet(index, size) ==
  /\ index + size <= Len(mem)
  /\ IF ~shmBound
     THEN memRet' = MemReturned("get", "raise", <<>>, "AttributeError", index, size)
     ELSE LET r == BlockGet(mem, memDtype, index, size)
          IN memRet' = IF r.exc # ""
                       THEN MemReturned("get", "raise", <<>>, r.exc, index, size)
                       ELSE MemReturned("get", "array", r.val, "", index, size)
  /\ UNCHANGED <<mem, memDtype, shmBound, lastSet>>
  /\ UNCHANGED <<hvars, qvars, tcvars, wvars, gaSnap, gaQuiet, watch, pubRet>>

\* MPFSharedMemory.cleanup(): the try block releases the block and shuts the
\* manager down, or raises AttributeError on the deleted _memory, which the
\* except clause logs; the finally block deletes _memory and _manager, and
\* raises AttributeError when they are deleted already.
MemCleanup ==
  /\ mem' = <<>>
  /\ shmBound' = FALSE
  /\ lastSet' = NoSet
  /\ memRet' = IF shmBound
                THEN MemReturned("cleanup", "none", <<>>, "", 0, 0)
                ELSE MemReturned("cleanup", "raise", <<>>, "AttributeError", 0, 0)
  /\ UNCHANGED memDtype
  /\ UNCHANGED <<hvars, qvars, tcvars, wvars, gaSnap, gaQuiet, watch, pubRet>>

\* The controller works on one allocated segment.
NextMem ==
  \/ \E start \in 0..MaxLength : \E data \in DataSeqs : MemSet(start, data)
  \/ \E index \in 0..MaxLength : \E size \in 0..MaxLength : MemGet(index, size)
  \/ MemCleanup

\* A handle without a worker and a segment of any size and element type.
InitMem ==
  /\ Constructed({})
  /\ \E size \in 1..MaxLength : \E dtype \in Dtypes : Allocated(size, dtype)

SpecMem == InitMem /\ [][NextMem]_vars

\* The controller sets one worker up on the handle.
Next ==
  \/ (process = 0 /\ SetupProcess)
  \/ Handle
  \/ \E p \in Procs : Worker(p)

Spec == Init /\ [][Next]_vars

\* The same program, no outcome recorded.
InitRun == Constructed({}) /\ NoSegment
SpecRun == InitRun /\ [][Next]_vars

\* The same program, the outcome of put() recorded.
InitPut == Constructed({"put"}) /\ NoSegment
SpecPut == InitPut /\ [][Next]_vars

\* A controller that sets one worker up, sends it a greeting, collects
\* results and closes the handle.
NextGetAll ==
  \/ (process = 0 /\ SetupProcess)
  \/ Put(Greet, "hello")
  \/ GetAll
  \/ GetAllLoop
  \/ Close
  \/ ClosePut
  \/ CloseJoin
  \/ CloseTerminate
  \/ CloseDrain
  \/ \E p \in Procs : Worker(p)

\* That controller, the outcome of the worker's publish calls recorded.
InitPublish == Constructed({"publish"}) /\ NoSegment
SpecPublish == InitPublish /\ [][NextGetAll]_vars

\* That controller, the outcome of get_all() recorded; once inside get_all's
\* loop it keeps running it.
InitGetAll == Constructed({"get_all"}) /\ NoSegment
SpecGetAll == InitGetAll /\ [][NextGetAll]_vars /\ WF_vars(GetAllLoop)

\* Workers whose hooks return normally, never wait for initial data and
\* publish at most one result between them.
WellBehaved ==
  /\ \A p \in Procs : wpc[p] \notin {"hung", "wfi"} /\ cause[p] # "fault"
  /\ Buffered(NumProcs) + Len(outq) + Len(results) <= 1
  /\ \A p \in Procs : \A q \in Procs : nPub[p] + nPub[q] <= 1 \/ p = q

WorkerWellBehaved(p) ==
  \/ WInit(p) /\ WellBehaved'
  \/ WCheck(p)
  \/ WUpdate(p) /\ WellBehaved'
  \/ WStep(p) /\ WellBehaved'
  \/ WPublish(p) /\ WellBehaved'
  \/ WPublishResult(p) /\ WellBehaved'
  \/ Flush(p)
  \/ WRelease(p)
  \/ WCleanup(p) /\ WellBehaved'
  \/ WExit(p)

\* The controller may call setup_process again on the same handle; the
\* workers are well behaved.
NextSetups ==
  \/ SetupProcess
  \/ Handle
  \/ \E p \in Procs : WorkerWellBehaved(p)

SpecSetups == InitRun /\ [][NextSetups]_vars

\* The hook called in this step returns normally.
HookReturns(p) == cause' = cause /\ wpc'[p] # "hung"

\* A worker that shares its input queue with other workers; its hooks return
\* normally and publish nothing.
WorkerShared(p) ==
  \/ WInit(p) /\ HookReturns(p)
  \/ WCheckTest(p)
  \/ WCheckTake(p)
  \/ WUpdate(p) /\ HookReturns(p)
  \/ WStep(p) /\ HookReturns(p)
  \/ WPublish(p) /\ HookReturns(p)
  \/ WRelease(p)
  \/ WCleanup(p) /\ HookReturns(p)
  \/ WExit(p)

\* One input queue injected into several handles: each setup_process starts
\* one more worker consuming from it; the controller puts envelopes on the
\* queue and closes through the handle set up last.
NextShared ==
  \/ SetupProcess
  \/ \E a \in PutArgs : Put(a.header, a.data)
  \/ Close
  \/ ClosePut
  \/ CloseJoin
  \/ CloseTerminate
  \/ CloseDrain
  \/ \E p \in Procs : WorkerShared(p)

SpecShared == InitRun /\ [][NextShared]_vars

\* ------------------------------------------------------------- properties

AliveWorkers == {p \in Procs : Alive(p)}

\* C1: at most one worker spawned through the handle is alive, whatever
\* setup_process, put, get, get_all and close calls were made.
C1_AtMostOneLiveWorker == Cardinality(AliveWorkers) <= 1

\* C2: a worker that left the run loop on the stop sentinel or on a fault of
\* a hook has its cleanup hook called exactly once, after the task checker
\* was released and before run() returns.
C2_CleanupExactlyOnce ==
  \A p \in Procs :
    /\ cleanupCalls[p] <= 1
    /\ cleanupCalls[p] = 1 => tcReleased[p]
    /\ wpc[p] \in {"fin", "cleanup"} => cleanupCalls[p] = 0
    /\ wpc[p] \in {"exiting", "exited"} =>
         cleanupCalls[p] = 1 /\ cause[p] \in {"stop", "fault"}

C2_Witness ==
  \E p \in Procs :
    wpc[p] = "exited" /\ cause[p] = "fault" /\ lastId[p] > 0 /\ cleanupCalls[p] = 1

\* The claim's reading of a stop header: some exit synonym occurs in the
\* header as a contiguous part, letter case ignored.
IsStopSynonym(h) ==
  \E k \in 1..Len(EXIT_KEYWORDS) :
    \E i \in 0..(Len(h) - Len(EXIT_KEYWORDS[k])) :
      \A j \in 1..Len(EXIT_KEYWORDS[k]) : LowerChar(h[i + j]) = EXIT_KEYWORDS[k][j]

\* The header the claim says the task checker shows for a header as sent.
Normalised(h) == IF IsStopSynonym(h) THEN STOP_PROCESS ELSE h

\* C3: a header holding an exit synonym, in any letter case, leaves the task
\* checker's header at STOP PROCESS and the update hook is not called for that
\* envelope; any other header is kept as sent.
C3_StopHeaderNormalised ==
  \A p \in Procs :
    /\ lastRaw[p] # NoHeader => tcHeader[p] = Normalised(lastRaw[p])
    /\ wpc[p] = "update" => ~IsStopSynonym(lastRaw[p])

C3_Witness ==
  \E p \in Procs :
    lastRaw[p] = PleaseCloseNow /\ tcHeader[p] = STOP_PROCESS /\ wpc[p] = "fin"

\* C4: once a worker's task checker has consumed a stop envelope, the worker
\* polls no more and calls no update, step or publish: it is in run()'s
\* finally block or beyond.
C4_StopIsFinal ==
  \A p \in Procs :
    stopSeen[p] => wpc[p] \in {"fin", "cleanup", "exiting", "exited", "killed", "hung"}
                   /\ (wpc[p] = "hung" => cleanupCalls[p] = 1)

\* C5: the worker's task checker observes the enqueued envelopes in the order
\* of enqueueing, one by one, none skipped and none twice, each with the
\* header (normalised) and the payload it was enqueued with.
C5_ObservedInOrder ==
  [][\A p \in Procs :
       lastId'[p] # lastId[p] =>
         /\ lastId'[p] = lastId[p] + 1
         /\ inq # <<>>
         /\ \E i \in 1..Len(inq) :
              /\ inq[i].id = lastId'[p]
              /\ lastObs'[p] = MPFDataPacket(Normalised(inq[i].header), inq[i].data)
              /\ \A j \in 1..Len(inq) : j # i => inq'[IF j < i THEN j ELSE j - 1] = inq[j]
         /\ Len(inq') = Len(inq) - 1]_vars

C5_Witness == \E p \in Procs : lastId[p] >= 2 /\ nSent >= 2

\* A step that is a get_all() call returning at once on a live handle.
GetAllReturnsAtOnce ==
  /\ cpc = "idle" /\ cpc' = "idle"
  /\ ~terminating /\ HandleAlive
  /\ ret'.op = "get_all"
  /\ UNCHANGED <<tcvars, wvars, inq, outbuf, nSent>>

\* A step that ends the loop of a get_all() called by the controller.
GetAllLoopEnds == cpc = "ga_loop" /\ ~cleaningUp /\ cpc' = "idle"

\* C6: get_all() on a live handle whose output queue holds N >= 0 results,
\* nothing being written meanwhile, returns the list of those N results in
\* the order of enqueueing and leaves the output queue empty.
C6_GetAllReturnsAll ==
  [][/\ (GetAllReturnsAtOnce /\ outq = <<>> /\ Buffered(NumProcs) = 0) =>
          (ret'.kind = "list" /\ ret'.val = <<>> /\ outq' = <<>>)
     /\ (GetAllLoopEnds /\ gaQuiet) =>
          (ret'.kind = "list" /\ ret'.val = gaSnap /\ outq' = <<>>)]_vars

\* C7: once close() has returned, is_alive() returns False and put() and
\* get_all() return None without doing anything.
C7_AfterClose ==
  released =>
    /\ ret.op = "is_alive" => (ret.kind = "bool" /\ ~ret.flag)
    /\ ret.op \in {"put", "get_all"} => ret.kind = "none"

\* C8: a close() call never raises, the second one on a handle included.
C8_CloseIdempotent == ret.op = "close" => ret.kind = "none"

\* A step that is a put() call on a live handle.
PutOnLiveHandle ==
  /\ cpc = "idle" /\ cpc' = "idle"
  /\ ~terminating /\ HandleAlive
  /\ ret'.op = "put"
  /\ UNCHANGED <<tcvars, wvars, outq, outbuf, gvars>>

\* C9: put() on a live handle never raises; on a full input queue it returns
\* with the queue as it was; the input queue never holds more than its capacity.
C9_PutOnFullDrops ==
  /\ [](Len(inq) <= InCap)
  /\ [][PutOnLiveHandle =>
          /\ ret'.kind = "none"
          /\ Len(inq) >= InCap => (inq' = inq /\ ~ret'.flag)]_vars

C9_Witness ==
  /\ HandleAlive /\ ~terminating /\ cpc = "idle"
  /\ Len(inq) = InCap
  /\ ret = Returned("put", "none", <<>>, "", FALSE)

\* No worker will take another envelope from the input queue.
NoConsumerLeft ==
  \A p \in Procs :
    wpc[p] \in {"unstarted", "hung", "fin", "cleanup", "exiting", "exited", "killed"}

\* C10: close() always returns: it is never left waiting for room on an
\* input queue that nothing will empty.
C10_CloseAlwaysReturns == ~(cpc = "close_put" /\ Full(inq) /\ NoConsumerLeft)

\* The stop envelope of the close() in progress is on the input queue or was
\* the last envelope the handle's worker consumed.
StopEnvelopeSent ==
  \/ \E i \in 1..Len(inq) : inq[i].header = EXIT_KEYWORDS[1] /\ inq[i].data = ProcessName
  \/ /\ lastRaw[process] = EXIT_KEYWORDS[1]
     /\ lastObs[process] = MPFDataPacket(STOP_PROCESS, ProcessName)

\* A step in which the handle's worker is forcibly terminated.
ForcedTermination ==
  \E p \in Procs : wpc[p] # "killed" /\ wpc'[p] = "killed"

\* C11: close() escalates in order: the terminating flag is set before the
\* stop envelope is enqueued, the envelope before the timed join, the worker
\* is forcibly terminated only when found alive after a join and only after
\* the stop envelope was sent, and a join follows every forced termination.
C11_EscalationOrder ==
  /\ [](cpc \in {"close_put", "close_join", "close_while"} => terminating)
  /\ [](cpc \in {"close_join", "close_while"} => StopEnvelopeSent)
  /\ [][/\ (cpc = "close_put" /\ cpc' # cpc) =>
            (cpc' = "close_join" /\ Len(inq') = Len(inq) + 1
             /\ inq'[Len(inq')].header = EXIT_KEYWORDS[1])
        /\ (cpc' = "close_while" /\ cpc # cpc') => cpc = "close_join"
        /\ ForcedTermination =>
            (cpc = "close_while" /\ HandleAlive /\ wpc'[process] = "killed"
             /\ cpc' = "close_join")]_vars

C11_Witness ==
  /\ cpc = "close_join" /\ process # 0 /\ wpc[process] = "killed"
  /\ terminating /\ StopEnvelopeSent

\* C12: get() never raises; on a handle that is terminating or whose worker
\* was found dead it returns None, and otherwise a (header, payload) pair or
\* None.
C12_GetHonorsGate ==
  ret.op = "get" =>
    /\ ret.kind \in {"none", "pair"}
    /\ (terminating /\ cpc = "idle") => ret.kind = "none"

\* C13: get_all() on a handle that was set up never raises and always
\* returns a list.
C13_GetAllAlwaysList == ret.op = "get_all" => ret.kind = "list"

\* A step that ends a get_all() call which found the worker dead and ran
\* close(), the worker having consumed an envelope and then stopped on the
\* controller's own stop header, and close() having taken results off the
\* output queue.
GetAllEndsAfterWorkerStopped ==
  /\ caller = "get_all" /\ cpc = "ga_loop" /\ cleaningUp /\ cpc' = "idle"
  /\ wpc[process] = "exited" /\ cause[process] = "stop"
  /\ lastRaw[process] = PleaseCloseNow /\ lastId[process] >= 2
  /\ results # <<>>

\* C14: the results a worker published before it stopped on the controller's
\* stop header are returned by get_all(), not discarded by the handle.
C14_ResultsReachController ==
  [][GetAllEndsAfterWorkerStopped => (ret'.kind = "list" /\ ret'.val = results)]_vars

\* C15: on a segment, set(start, data) with start + len(data) <= length
\* returns normally, and a get(start, len(data)) after it returns the values
\* of data.
C15_RoundTrip ==
  /\ (memRet.op = "set" /\ shmBound) => memRet.kind = "none"
  /\ (memRet.op = "get" /\ lastSet.ok /\ memRet.start = lastSet.start
        /\ memRet.size = Len(lastSet.data)) =>
       /\ memRet.kind = "array"
       /\ memRet.val = [i \in 1..Len(lastSet.data) |-> Float64(lastSet.data[i])]

\* A step that is a set() call on the segment.
SetStep == memRet'.op = "set" /\ shmBound /\ <<mem, memRet>>' # <<mem, memRet>>

\* C16: set(start, data) with start + len(data) <= length leaves every
\* element outside [start, start + len(data)) as it was.
C16_SetFrame ==
  [][SetStep =>
       /\ Len(mem') = Len(mem)
       /\ \A i \in 1..Len(mem) :
            (i <= memRet'.start \/ i > memRet'.start + memRet'.size) => mem'[i] = mem[i]]_vars

C18_CleanupOnForcedKill ==
  \A p \in Procs : wpc[p] = "killed" => cleanupCalls[p] = 1

\* A pass of get_all's loop.
GetAllPass ==
  /\ cpc = "ga_loop"
  /\ (results' # results \/ failCount' # failCount \/ cpc' # cpc)

\* C19: in get_all's loop a retrieval that succeeds resets the failure
\* counter; an Empty while qsize() > 0 is retried, counted, and at the tenth
\* in a row the loop ends with the items collected so far; the counter stays
\* below ten, and the loop always ends.
C19_GetAllTerminates ==
  /\ [](failCount < FailLimit)
  /\ [][GetAllPass =>
          /\ (OutQSize > 0 /\ outq # <<>>) =>
               (results' = Append(results, Head(outq)) /\ failCount' = 0
                /\ cpc' = "ga_loop")
          /\ (OutQSize > 0 /\ outq = <<>> /\ failCount + 1 < FailLimit) =>
               (failCount' = failCount + 1 /\ results' = results /\ cpc' = "ga_loop")
          /\ (OutQSize > 0 /\ outq = <<>> /\ failCount + 1 >= FailLimit) => cpc' = "idle"
          /\ (cpc' = "idle" /\ ~cleaningUp) =>
               (ret'.kind = "list" /\ ret'.val = results)]_vars
  /\ (cpc = "ga_loop") ~> (cpc = "idle")

C19_Witness ==
  /\ cpc = "ga_loop" /\ ~cleaningUp
  /\ failCount = FailLimit - 1 /\ results # <<>>
  /\ outq = <<>> /\ OutQSize > 0

\* C20: a worker still inside wait_for_initialization has consumed no
\* envelope whose header, as sent, is the expected one (any header, when
\* none is expected).
C20_WaitReturnsOnMatch ==
  \A p \in Procs :
    (wpc[p] = "wfi" /\ lastId[p] > 0) =>
      (wfiHeader[p] # NoHeader /\ lastRaw[p] # wfiHeader[p])

\* Positions of run() past the loop, and where a worker is when it was
\* stopped from outside or a hook does not return.
PastLoop == {"fin", "cleanup", "exiting", "exited"}
Halted == {"hung", "killed"}

\* The worker p leaves hook position `at` by a fault of the hook.
FaultAt(p, at) == wpc[p] = at /\ wpc'[p] = "fin" /\ cause'[p] = "fault"

\* C21: the shape of the run loop. The loop is entered only after init; an
\* iteration consumes at most one envelope, at its top; a consumed envelope
\* that is not a stop is followed by the update hook with that envelope's
\* header as sent and its payload, and nothing is consumed until the next
\* top of the loop; an iteration without a stop goes to step and then to
\* publish, new data or not; on a stop the loop is left without update, step
\* or publish. (A hook that raises or does not return, and a kill by the
\* handle, end the iteration where it is.)
C21_RunLoopShape ==
  [][\A p \in Procs :
       /\ (wpc'[p] = "check" /\ wpc[p] # "check") => wpc[p] \in {"init", "wfi", "publish"}
       /\ (wpc[p] \in {"update", "step", "publish"} \cup PastLoop \cup Halted) =>
            (lastId'[p] = lastId[p] /\ tcHeader'[p] = tcHeader[p] /\ tcData'[p] = tcData[p])
       /\ (wpc[p] = "check" /\ wpc'[p] \notin {"check", "killed"}) =>
            IF inq = <<>>
            THEN wpc'[p] = "step" /\ inq' = inq /\ lastId'[p] = lastId[p]
            ELSE /\ inq' = Tail(inq) /\ lastId'[p] = Head(inq).id
                 /\ IF IsStopSynonym(Head(inq).header)
                    THEN wpc'[p] = "fin" /\ cause'[p] = "stop"
                    ELSE /\ wpc'[p] = "update"
                         /\ tcHeader'[p] = Head(inq).header
                         /\ tcData'[p] = Head(inq).data
       /\ (wpc[p] = "update" /\ wpc'[p] # "update") =>
            (wpc'[p] = "step" \/ FaultAt(p, "update") \/ wpc'[p] \in Halted)
       /\ (wpc[p] = "step" /\ wpc'[p] # "step") =>
            (wpc'[p] = "publish" \/ FaultAt(p, "step") \/ wpc'[p] \in Halted)
       /\ (wpc[p] = "publish" /\ wpc'[p] # "publish") =>
            (wpc'[p] = "check" \/ FaultAt(p, "publish") \/ wpc'[p] \in Halted)
       /\ (wpc[p] \in PastLoop) => wpc'[p] \in PastLoop \cup Halted]_vars

C21_Witness ==
  \E p \in Procs :
    /\ wpc[p] = "update" /\ lastId[p] = 2
    /\ tcHeader[p] = NearMiss /\ tcData[p] = "hello"

\* A step that ends a get(), put() or get_all() call which found the
\* handle's worker dead after a fault of one of its hooks.
CallEndsAfterFault ==
  /\ caller \in {"get", "put", "get_all"} /\ cpc # "idle" /\ cpc' = "idle"
  /\ cause[process] = "fault"

\* C22: after a hook of a worker has raised, the worker is in run()'s finally
\* block or beyond (no hook but cleanup runs, no envelope is consumed), and
\* the call on the handle that finds the worker dead does not raise: the
\* controller only sees that the worker is not alive.
C22_FaultContained ==
  /\ [](\A p \in Procs :
          cause[p] = "fault" =>
            /\ wpc[p] \in PastLoop \cup Halted
            /\ wpc[p] = "hung" => cleanupCalls[p] = 1)
  /\ [][CallEndsAfterFault => ret'.kind # "raise"]_vars

\* A step in which worker p's publish hook calls results_publisher.publish.
PublishCall(p) == wpc[p] = "publish" /\ pubRet' # pubRet /\ pubRet'.proc = p

\* C23: publish() on a full output queue drops the result and returns;
\* on a queue with room it appends exactly one envelope with the given header
\* and payload; with the controller draining the queue meanwhile, publish
\* never raises and the queue never holds more than its capacity.
C23_PublishBackpressure ==
  /\ [](OutQSize <= OutCap)
  /\ [](pubRet.kind # "raise")
  /\ [][\A p \in Procs :
          PublishCall(p) =>
            /\ wpc'[p] = "check" /\ cause' = cause /\ outq' = outq
            /\ \A q \in Procs : q # p => outbuf'[q] = outbuf[q]
            /\ IF OutQSize >= OutCap
               THEN pubRet'.kind = "dropped" /\ outbuf'[p] = outbuf[p]
               ELSE /\ pubRet'.kind = "put"
                    /\ outbuf'[p] =
                         Append(outbuf[p], MPFDataPacket(RESULT_HEADER, pubRet'.data))]_vars

C23_Witness ==
  /\ pubRet.kind = "dropped" /\ OutQSize = OutCap
  /\ process # 0 /\ nPub[process] = MaxPub /\ Len(outq) < OutCap

\* C24: with several workers consuming from one input queue, a worker that
\* found the queue not empty finds an envelope when it takes without waiting,
\* and no worker leaves its run loop on a fault of check_for_update.
C24_SharedQueueCheckNeverFaults ==
  \A p \in Procs :
    /\ wpc[p] = "take" => inq # <<>>
    /\ cause[p] # "fault"

====
